---- MODULE Spec2Model ----
(***************************************************************************)
(* A model of pypacker's layered-packet engine (src/pypacker/pypacker.py)  *)
(* and of the IPv6 extension-header dissector                              *)
(* (src/pypacker/layer3/ip6.py).                                           *)
(*                                                                         *)
(* Ten specifications share the module's variables:                       *)
(*   Spec       the Packet / TriggerList engine: construction, attribute   *)
(*              assignment, body handlers, layer concatenation and bin();  *)
(*   SpecIP6    the IP6._dissect extension-chain walk on an input buffer;  *)
(*   SpecStack  layer stacks of any depth: the / operator and P[T];        *)
(*   SpecReg    the handler registry filled by Packet.load_handler;        *)
(*   SpecCk     the checksum functions in_cksum_add, in_cksum_done;        *)
(*   SpecAdd    one layer extended by _add_headerfield and encoded;        *)
(*   SpecAcc    IP6._direction and IP6.callback_impl on two IP6 layers;    *)
(*   SpecFrag   the bit-field properties of IP6FragmentHeader;             *)
(*   SpecKlass  class attributes and the instances that share them;        *)
(*   SpecTrig   the operations of a TriggerList and its pack cache.        *)
(*                                                                         *)
(* Python values are encoded so that every attribute keeps one TLA+ type:  *)
(*   an int field value is a natural number, None is NoneI, a TriggerList  *)
(*   held in a field is TLRef; a bytes value is a sequence of 0..255 and   *)
(*   None in its place is NoneB; an attribute that was never set on the    *)
(*   class or the instance is "unset".                                     *)
(***************************************************************************)
EXTENDS Integers, Sequences, FiniteSets, TLC

VARIABLES obj, tl, ret, origin, nops, ip6, stk, reg, ck, acc, frag, klass, trig

vars == <<obj, tl, ret, origin, nops, ip6, stk, reg, ck, acc, frag, klass, trig>>

\* ------------------------------------------------------------ bounds
\* Bytes of input buffers and one-byte field values are drawn from 0..MaxByte.
MaxByte == 1
\* An input buffer handed to a Packet constructor holds at most MaxExtra bytes
\* after the header of the constructed class.
MaxExtra == 1
\* A TriggerList holds at most MaxTL elements.
MaxTL == 1
\* A run makes at most MaxOps calls into the Packet engine.
MaxOps == 5

\* ------------------------------------------------------------ encodings
NoneI == -1
TLRef == -2
NoneB == <<-1>>

Bytes == 0..MaxByte

RECURSIVE SeqsUpTo(_, _)
\* every sequence over S of length <= n
SeqsUpTo(S, n) ==
  IF n = 0 THEN { <<>> }
  ELSE LET shorter == SeqsUpTo(S, n - 1)
       IN shorter \cup { Append(s, x) : s \in { t \in shorter : Len(t) = n - 1 }, x \in S }

RECURSIVE Concat(_)
\* b"".join(seq of byte strings)
Concat(ss) == IF ss = <<>> THEN <<>> ELSE Head(ss) \o Concat(Tail(ss))

RECURSIVE SumSeq(_)
SumSeq(s) == IF s = <<>> THEN 0 ELSE Head(s) + SumSeq(Tail(s))

Range(s) == { s[i] : i \in DOMAIN s }

\* python slice s[a:b] with 0-based a, b (clamped to the sequence)
Slice(s, a, b) ==
  LET hi == IF b > Len(s) THEN Len(s) ELSE b
  IN IF a >= hi THEN <<>> ELSE SubSeq(s, a + 1, hi)

\* ------------------------------------------------------------ struct
\* struct.calcsize of one format character under a standard byte order ('>')
Width(fmt) == CASE fmt = "B" -> 1 [] fmt = "H" -> 2 [] OTHER -> 0

\* struct.calcsize(fmtstr): the byte order character adds no padding
CalcSize(fmts) == SumSeq([i \in DOMAIN fmts |-> Width(fmts[i])])

\* struct.pack('>' + fmt, v) for one value
PackVal(fmt, v) ==
  CASE fmt = "B" -> << v >>
    [] fmt = "H" -> << v \div 256, v % 256 >>
    [] OTHER -> << >>

\* struct.unpack('>' + fmt, b)[0] for one value
UnpackVal(fmt, b) ==
  CASE fmt = "B" -> b[1]
    [] fmt = "H" -> b[1] * 256 + b[2]
    [] OTHER -> 0

\* the values a field of format fmt can take after unpacking bytes of 0..MaxByte
FieldVals(fmt) ==
  CASE fmt = "B" -> Bytes
    [] fmt = "H" -> { hi * 256 + lo : hi \in Bytes, lo \in Bytes }
    [] OTHER -> {}

\* ------------------------------------------------------------ schema
\* Two protocol types: Foo (layer p) with fields a:'B'=1, b:'H'=256 and
\* Bar (layer q) with field x:'B'=0.  q may become the body of p or an element
\* of the TriggerList.
Layers == {"p", "q"}

ClassOf(l) == IF l = "p" THEN "Foo" ELSE "Bar"

\* __hdr__ of each class: (name, format, default)
Hdr(c) ==
  IF c = "Foo" THEN << <<"a", "B", 1>>, <<"b", "H", 256>> >>
  ELSE << <<"x", "B", 0>> >>

\* the layers that can be attached above l (bodies are attached in one
\* direction only, so that the layer graph stays acyclic)
Upper(l) == IF l = "p" THEN {"q"} ELSE {}

\* subsequence of names whose entry in keep is TRUE
RECURSIVE Filter(_, _)
Filter(names, keep) ==
  IF names = <<>> THEN <<>>
  ELSE IF keep[Head(names)] THEN <<Head(names)>> \o Filter(Tail(names), keep)
       ELSE Filter(Tail(names), keep)

\* The class attributes MetaPacket.__new__ sets, seen through a fresh instance.
\* packet_changed is not among them (header_changed and data_changed are), so
\* it stays "unset" until some method assigns it.
NewLayer(c) ==
  LET st == Hdr(c)
      names == [i \in DOMAIN st |-> st[i][1]]
      fmts == [i \in DOMAIN st |-> st[i][2]]
      dflt == [n \in Range(names) |-> (CHOOSE i \in DOMAIN st : st[i][1] = n)]
      val0 == [n \in Range(names) |-> st[dflt[n]][3]]
      nn == Filter(names, [n \in Range(names) |-> val0[n] # NoneI])
      nnfmt == [i \in DOMAIN nn |-> st[dflt[nn[i]]][2]]
  IN [ alive |-> TRUE,
       cls |-> c,
       hdr_fields |-> names,
       hdr_fmt |-> fmts,
       val |-> val0,
       fnn |-> nn,
       fmtstr |-> nnfmt,
       hdr_len |-> CalcSize(nnfmt),
       data |-> <<>>,
       bodytypename |-> "None",
       body |-> "None",
       packet_changed |-> "unset",
       header_cached |-> NoneB,
       changelistener |-> <<>> ]

\* a layer object that has not been constructed yet
NoLayer(c) == [NewLayer(c) EXCEPT !.alive = FALSE]

\* format of field number i of the instance
FmtAt(r, name) == r.hdr_fmt[CHOOSE i \in DOMAIN r.hdr_fields : r.hdr_fields[i] = name]

\* ------------------------------------------------------------ TriggerList
\* A fresh TriggerList: no elements, no owner, nothing cached.
NewTL == [ items |-> <<>>, packet |-> "None", cached_result |-> NoneB ]

\* ------------------------------------------------------------ Packet methods
\* Packet.__update_fmtstr: walk the instance's fields in order, skip None,
\* and rebuild (present names, format string, header length).  Nothing is
\* stored before the walk ends, so an exception leaves the three unchanged.
\* A field holding the TriggerList reads val[0] (IndexError on an empty list)
\* and, for Packet elements, calls p.get_formatstr(), which is declared without
\* self (TypeError).
UpdateFmtstr(r, t) ==
  LET names == r.hdr_fields
      present == Filter(names, [n \in Range(names) |-> r.val[n] # NoneI])
      hasTL == \E i \in DOMAIN present : r.val[present[i]] = TLRef
      fmts == [i \in DOMAIN present |-> FmtAt(r, present[i])]
  IN IF hasTL
     THEN [ kind |-> IF t.items = <<>> THEN "IndexError" ELSE "TypeError", r |-> r ]
     ELSE [ kind |-> "ok",
            r |-> [r EXCEPT !.fnn = present, !.fmtstr = fmts, !.hdr_len = CalcSize(fmts)] ]

\* TriggerList.__notify_change, registered as a change listener: mark the
\* list's owner changed.
NotifyChange(o, t) ==
  IF t.packet = "None" THEN o ELSE [o EXCEPT ![t.packet].packet_changed = "true"]

\* Packet.__notity_changelistener: call every registered listener.  The only
\* listeners of the model are TriggerList notifications.
NotifyListeners(o, l, t) ==
  IF o[l].changelistener = <<>> THEN o ELSE NotifyChange(o, t)

\* Packet.pack_hdr.  kind is "ok" (bytes returned), "none" (an Error was
\* caught and logged, the method falls off its end and returns None) or the
\* name of the exception that escapes.
PackHdr(o, l) ==
  LET r == o[l]
      vals == [i \in DOMAIN r.fnn |-> r.val[r.fnn[i]]]
      packed == Concat([i \in DOMAIN r.fnn |-> PackVal(r.fmtstr[i], vals[i])])
  IN IF r.header_cached # NoneB /\ r.packet_changed = "unset"
     THEN [ o |-> o, kind |-> "AttributeError", bytes |-> <<>> ]
     ELSE IF r.header_cached # NoneB /\ r.packet_changed = "false"
     THEN [ o |-> o, kind |-> "ok", bytes |-> r.header_cached ]
     ELSE IF \E i \in DOMAIN vals : vals[i] = NoneI
     THEN [ o |-> o, kind |-> "none", bytes |-> <<>> ]
     ELSE [ o |-> [o EXCEPT ![l].header_cached = packed], kind |-> "ok", bytes |-> packed ]

RECURSIVE BinRec(_, _)
\* Packet.bin: header from pack_hdr, packet_changed cleared, then the raw
\* body or the body handler's own bin().  The right operand of
\* header_bin + body.bin() is evaluated before the sum fails on a None header.
BinRec(o, l) ==
  LET ph == PackHdr(o, l)
  IN IF ph.kind \notin {"ok", "none"}
     THEN [ o |-> ph.o, kind |-> ph.kind, bytes |-> <<>> ]
     ELSE
       LET o1 == [ph.o EXCEPT ![l].packet_changed = "false"]
           r == o1[l]
       IN IF r.bodytypename = "None"
          THEN IF r.data = NoneB
               THEN [ o |-> o1, kind |-> "AssertionError", bytes |-> <<>> ]
               ELSE IF ph.kind = "none"
               THEN [ o |-> o1, kind |-> "TypeError", bytes |-> <<>> ]
               ELSE [ o |-> o1, kind |-> "ok", bytes |-> ph.bytes \o r.data ]
          ELSE IF r.data # NoneB
               THEN [ o |-> o1, kind |-> "AssertionError", bytes |-> <<>> ]
               ELSE LET sub == BinRec(o1, r.body)
                    IN IF sub.kind # "ok"
                       THEN [ o |-> sub.o, kind |-> sub.kind, bytes |-> <<>> ]
                       ELSE IF ph.kind = "none"
                       THEN [ o |-> sub.o, kind |-> "TypeError", bytes |-> <<>> ]
                       ELSE [ o |-> sub.o, kind |-> "ok", bytes |-> ph.bytes \o sub.bytes ]

RECURSIVE LenRec(_, _)
\* Packet.__len__: the header length plus len(data), or plus len() of the body
\* handler when data is None; without a handler the attribute name is None
\* (TypeError)
LenRec(o, l) ==
  LET r == o[l]
  IN IF r.data # NoneB
     THEN [ kind |-> "ok", n |-> r.hdr_len + Len(r.data) ]
     ELSE IF r.bodytypename = "None"
     THEN [ kind |-> "TypeError", n |-> 0 ]
     ELSE LET sub == LenRec(o, r.body)
          IN IF sub.kind # "ok" THEN sub
             ELSE [ kind |-> "ok", n |-> r.hdr_len + sub.n ]

\* Packet._set_bodyhandler(h) on record r; h is "None" or a layer.  Removing
\* the handler returns before packet_changed is set.
SetBodyHandlerRec(r, h) ==
  IF h = "None"
  THEN [r EXCEPT !.bodytypename = "None", !.body = "None",
                 !.data = IF r.data = NoneB THEN <<>> ELSE r.data]
  ELSE [r EXCEPT !.bodytypename = IF ClassOf(h) = "Foo" THEN "foo" ELSE "bar",
                 !.body = h, !.data = NoneB, !.packet_changed = "true"]

UnpackStaticNoNeedData(buf, n) == IF Len(buf) < n THEN "UnpackError" ELSE "ok"
\* Packet.__init__(buf) around self.unpack(buf) for a static header of n
\* bytes: struct.unpack fails on the short slice buf[:n], and the struct.error
\* becomes NeedData because len(buf) < __hdr_len__ (UnpackError otherwise)
UnpackStatic(buf, n) == IF Len(buf) < n THEN "NeedData" ELSE "ok"

\* the layer met last when following body handlers from l (Packet.__truediv__)
RECURSIVE Deepest(_, _)
Deepest(o, l) == IF o[l].bodytypename = "None" THEN l ELSE Deepest(o, o[l].body)

\* ------------------------------------------------------------ inputs
\* buffers a caller hands to the constructor of layer l's class
Buffers(l) == SeqsUpTo(Bytes, NewLayer(ClassOf(l)).hdr_len + MaxExtra)

\* values a caller assigns to a header field of format fmt
AssignVals(fmt) == { v \in FieldVals(fmt) : v \in {0, 257} } \cup {NoneI}

\* raw body values a caller assigns to data
DataVals == { <<>>, <<1>> }

\* the static header fields of layer l's class
SchemaFields(l) == { Hdr(ClassOf(l))[i][1] : i \in DOMAIN Hdr(ClassOf(l)) }

SchemaFmt(l, k) ==
  Hdr(ClassOf(l))[CHOOSE i \in DOMAIN Hdr(ClassOf(l)) : Hdr(ClassOf(l))[i][1] = k][2]

\* the dissector state while the Packet engine runs on its own
IP6Idle ==
  [ buf |-> <<>>, pc |-> "idle", type_nxt |-> 0, off |-> 0, opts |-> <<>>,
    self_opts |-> <<>>, iters |-> 0, depth |-> 0, total |-> 0,
    handed |-> [type |-> -1, rest |-> <<>>, to |-> "None"], err |-> "None" ]

\* ------------------------------------------------------------ actions
\* one more call into the engine
Tick == nops < MaxOps /\ nops' = nops + 1

\* Packet.__init__(buf) with Packet.unpack: NeedData on an empty or too short
\* buffer; else the present fields are unpacked, the header bytes are cached
\* and the rest becomes the raw body.
ConstructBuf(l, b) ==
  /\ Tick
  /\ ~obj[l].alive
  /\ LET r == NewLayer(ClassOf(l))
         offs == [i \in DOMAIN r.fnn |->
                    CalcSize(SubSeq(r.fmtstr, 1, i - 1))]
         unpacked == [n \in DOMAIN r.val |->
                        IF \E i \in DOMAIN r.fnn : r.fnn[i] = n
                        THEN LET i == CHOOSE j \in DOMAIN r.fnn : r.fnn[j] = n
                             IN UnpackVal(r.fmtstr[i],
                                          Slice(b, offs[i], offs[i] + Width(r.fmtstr[i])))
                        ELSE r.val[n]]
     IN IF Len(b) = 0
        THEN /\ ret' = "NeedData"
             /\ UNCHANGED <<obj, origin>>
        ELSE IF UnpackStatic(b, r.hdr_len) # "ok"
        THEN /\ ret' = UnpackStatic(b, r.hdr_len)
             /\ UNCHANGED <<obj, origin>>
        ELSE /\ obj' = [obj EXCEPT ![l] =
                          [r EXCEPT !.val = unpacked,
                                    !.header_cached = Slice(b, 0, r.hdr_len),
                                    !.data = Slice(b, r.hdr_len, Len(b))]]
             /\ origin' = [origin EXCEPT ![l] = b]
             /\ ret' = "ok"
  /\ UNCHANGED <<tl, ip6, stk, reg, ck, acc, frag, klass, trig>>

\* Packet.__init__(**kwargs): every keyword is stored with
\* object.__setattr__, past __setattr__'s tracking.  kw.k is "" (no keyword),
\* a header field (value kw.v) or "data" (value kw.d).
ConstructKw(l, kw) ==
  /\ Tick
  /\ ~obj[l].alive
  /\ LET r == NewLayer(ClassOf(l))
     IN obj' = [obj EXCEPT ![l] =
                  IF kw.k = "" THEN r
                  ELSE IF kw.k = "data" THEN [r EXCEPT !.data = kw.d]
                  ELSE [r EXCEPT !.val[kw.k] = kw.v]]
  /\ ret' = "ok"
  /\ UNCHANGED <<tl, origin, ip6, stk, reg, ck, acc, frag, klass, trig>>

KwChoices(l) ==
  { [k |-> "", v |-> 0, d |-> <<>>] }
  \cup { [k |-> f, v |-> x, d |-> <<>>] :
           f \in SchemaFields(l), x \in {0, NoneI} }
  \cup { [k |-> "data", v |-> 0, d |-> x] : x \in DataVals \cup {NoneB} }

\* Packet.__setattr__(k, v) for a header field k: store v; when presence
\* changed, update the format, set packet_changed and notify the listeners.
SetField(l, k, v) ==
  /\ Tick
  /\ obj[l].alive
  /\ k \in Range(obj[l].hdr_fields)
  /\ LET oldval == obj[l].val[k]
         r1 == [obj[l] EXCEPT !.val[k] = v]
         u == UpdateFmtstr(r1, tl)
     IN IF (v = NoneI) = (oldval = NoneI)
        THEN /\ obj' = [obj EXCEPT ![l] = r1]
             /\ ret' = "ok"
        ELSE IF u.kind # "ok"
        THEN /\ obj' = [obj EXCEPT ![l] = r1]
             /\ ret' = u.kind
        ELSE /\ obj' = NotifyListeners(
                         [obj EXCEPT ![l] = [u.r EXCEPT !.packet_changed = "true"]], l, tl)
             /\ ret' = "ok"
  /\ origin' = [origin EXCEPT ![l] = NoneB]
  /\ UNCHANGED <<tl, ip6, stk, reg, ck, acc, frag, klass, trig>>

DataRefusedNever(r, v) == FALSE
\* the test of Packet.__setattr__ that raises Error: v is None and
\* self.bodytypename is None
DataRefused(r, v) == v = NoneB /\ r.bodytypename = "None"

\* Packet.__setattr__("data", v): None without a handler is an Error; else
\* packet_changed is set, a handler is removed when v is bytes, v is stored.
SetData(l, v) ==
  /\ Tick
  /\ obj[l].alive
  /\ IF DataRefused(obj[l], v)
     THEN /\ ret' = "Error"
          /\ UNCHANGED <<obj, origin>>
     ELSE /\ LET r1 == [obj[l] EXCEPT !.packet_changed = "true"]
                 r2 == IF v # NoneB /\ r1.bodytypename # "None"
                       THEN SetBodyHandlerRec(r1, "None") ELSE r1
             IN obj' = [obj EXCEPT ![l] = [r2 EXCEPT !.data = v]]
          /\ origin' = [origin EXCEPT ![l] = NoneB]
          /\ ret' = "ok"
  /\ UNCHANGED <<tl, ip6, stk, reg, ck, acc, frag, klass, trig>>

\* Packet._set_bodyhandler(h) called by a protocol or a user
SetBodyHandler(l, h) ==
  /\ Tick
  /\ obj[l].alive
  /\ h = "None" \/ (h \in Upper(l) /\ obj[h].alive)
  /\ obj' = [obj EXCEPT ![l] = SetBodyHandlerRec(obj[l], h)]
  /\ origin' = [origin EXCEPT ![l] = NoneB]
  /\ ret' = "ok"
  /\ UNCHANGED <<tl, ip6, stk, reg, ck, acc, frag, klass, trig>>

\* Packet.__truediv__: a / b sets b as the handler of the deepest layer of a
\* and returns a.  b is a layer that is not yet part of a's stack.
Div(a, b) ==
  /\ Tick
  /\ obj[a].alive /\ obj[b].alive
  /\ b \in Upper(Deepest(obj, a))
  /\ LET d == Deepest(obj, a)
     IN /\ obj' = [obj EXCEPT ![d] = SetBodyHandlerRec(obj[d], b)]
        /\ origin' = [origin EXCEPT ![d] = NoneB]
  /\ ret' = "ok"
  /\ UNCHANGED <<tl, ip6, stk, reg, ck, acc, frag, klass, trig>>

\* Packet.bin() called on layer l
Bin(l) ==
  /\ Tick
  /\ obj[l].alive
  /\ LET b == BinRec(obj, l)
     IN /\ obj' = b.o
        /\ ret' = b.kind
  /\ UNCHANGED <<tl, origin, ip6, stk, reg, ck, acc, frag, klass, trig>>

\* Packet._add_headerfield("opts", "", tl): the list gets its owner and its
\* format callback, the field is appended and stored, the format is updated
\* (the value is not None) and the listeners are notified.
AddHeaderField(l) ==
  /\ Tick
  /\ obj[l].alive
  /\ tl.packet = "None"
  /\ "opts" \notin Range(obj[l].hdr_fields)
  /\ LET t1 == [tl EXCEPT !.packet = l]
         r1 == [obj[l] EXCEPT
                  !.hdr_fields = Append(obj[l].hdr_fields, "opts"),
                  !.hdr_fmt = Append(obj[l].hdr_fmt, ""),
                  !.val = [n \in DOMAIN obj[l].val \cup {"opts"} |->
                             IF n = "opts" THEN TLRef ELSE obj[l].val[n]]]
         u == UpdateFmtstr(r1, t1)
     IN /\ tl' = t1
        /\ IF u.kind # "ok"
           THEN /\ obj' = [obj EXCEPT ![l] = r1]
                /\ ret' = u.kind
           ELSE /\ obj' = NotifyListeners([obj EXCEPT ![l] = u.r], l, t1)
                /\ ret' = "ok"
  /\ origin' = [origin EXCEPT ![l] = NoneB]
  /\ UNCHANGED <<ip6, stk, reg, ck, acc, frag, klass, trig>>

\* Packet._add_headerfield("c", "B", v) with an int or None: the field is
\* appended and stored, the format is updated when v is not None, and the
\* listeners are notified.  packet_changed is not assigned.
AddHeaderFieldVal(l, v) ==
  /\ Tick
  /\ obj[l].alive
  /\ "c" \notin Range(obj[l].hdr_fields)
  /\ LET r1 == [obj[l] EXCEPT
                  !.hdr_fields = Append(obj[l].hdr_fields, "c"),
                  !.hdr_fmt = Append(obj[l].hdr_fmt, "B"),
                  !.val = [n \in DOMAIN obj[l].val \cup {"c"} |->
                             IF n = "c" THEN v ELSE obj[l].val[n]]]
         u == UpdateFmtstr(r1, tl)
     IN IF v = NoneI
        THEN /\ obj' = NotifyListeners([obj EXCEPT ![l] = r1], l, tl)
             /\ ret' = "ok"
        ELSE IF u.kind # "ok"
        THEN /\ obj' = [obj EXCEPT ![l] = r1]
             /\ ret' = u.kind
        ELSE /\ obj' = NotifyListeners([obj EXCEPT ![l] = u.r], l, tl)
             /\ ret' = "ok"
  /\ origin' = [origin EXCEPT ![l] = NoneB]
  /\ UNCHANGED <<tl, ip6, stk, reg, ck, acc, frag, klass, trig>>

\* values handed to _add_headerfield for a 'B' field
AddVals == {NoneI, 5}

\* one layer that is built, assigned to, extended by a field and encoded
NextAdd ==
  \/ \E kw \in KwChoices("p") : ConstructKw("p", kw)
  \/ \E b \in Buffers("p") : ConstructBuf("p", b)
  \/ \E k \in SchemaFields("p") : \E v \in AssignVals(SchemaFmt("p", k)) : SetField("p", k, v)
  \/ \E v \in AddVals : AddHeaderFieldVal("p", v)
  \/ Bin("p")

\* TriggerList.__format: drop the cached result, then, inside try/except,
\* mark the owner changed and call its format callback; any exception
\* (no owner, a failing __update_fmtstr) is swallowed.
TLFormat(o, t) ==
  IF t.packet = "None" THEN o
  ELSE LET o1 == [o EXCEPT ![t.packet].packet_changed = "true"]
           u == UpdateFmtstr(o1[t.packet], t)
       IN IF u.kind = "ok" THEN [o1 EXCEPT ![t.packet] = u.r] ELSE o1

\* tl += [e] (TriggerList.__iadd__): the list is extended, then
\* __handle_mod is called with the list [e], which is no Packet, so
\* nothing is subscribed; __format follows.
TLIAdd(e) ==
  /\ Tick
  /\ obj[e].alive
  /\ Len(tl.items) < MaxTL
  /\ LET t1 == [tl EXCEPT !.items = Append(tl.items, e), !.cached_result = NoneB]
     IN /\ tl' = t1
        /\ obj' = TLFormat(obj, t1)
  /\ ret' = "ok"
  /\ UNCHANGED <<origin, ip6, stk, reg, ck, acc, frag, klass, trig>>

\* tl[i] = e (TriggerList.__setitem__): the element is stored, then
\* __handle_mod(e) calls e.add_change_listener_cb, a method Packet does not
\* have (its method is add_change_listener): AttributeError before __format.
TLSetItem(i, e) ==
  /\ Tick
  /\ obj[e].alive
  /\ i \in DOMAIN tl.items
  /\ tl' = [tl EXCEPT !.items[i] = e]
  /\ ret' = "AttributeError"
  /\ UNCHANGED <<obj, origin, ip6, stk, reg, ck, acc, frag, klass, trig>>

\* ------------------------------------------------------------ layer stacks
\* Layer objects 1..MaxObjs, built with their class defaults, are composed
\* into stacks.
MaxObjs == 3

StackObjs == 1..MaxObjs

\* the classes of the layer objects, by their lower-case names (the name
\* _set_bodyhandler stores in bodytypename): object 1 is a Foo, 2 a Bar,
\* 3 a Baz, 4 a Foo again
TypeNames == <<"foo", "bar", "baz">>
TypeOf(i) == TypeNames[((i - 1) % Len(TypeNames)) + 1]

\* the types a caller looks up with P[T]: the classes of the model and one
\* class no object has
LookupTypes == Range(TypeNames) \cup {"qux"}

\* the attributes of a layer that composition reads and writes; body is the
\* object stored under the attribute named bodytypename (0: no such attribute)
StkLayer == [ bodytypename |-> "None", body |-> 0, data |-> <<>>, packet_changed |-> "unset" ]

\* call is the last operation (b = 0 stands for a bytes operand), res what it
\* returned (obj = 0 stands for None) or raised
StkInit ==
  [ layer |-> [i \in StackObjs |-> StkLayer],
    call |-> [op |-> "none", a |-> 0, b |-> 0, k |-> ""],
    res |-> [kind |-> "ok", obj |-> 0] ]

StkDeepestIsSelf(L, l) == l
RECURSIVE StkDeepest(_, _)
\* the loop of Packet.__truediv__: follow bodytypename from l to the layer
\* that has none
StkDeepest(L, l) == IF L[l].bodytypename = "None" THEN l ELSE StkDeepest(L, L[l].body)

RECURSIVE StkBelow(_, _)
\* the layers of the stack that starts at l
StkBelow(L, l) == {l} \cup (IF L[l].bodytypename = "None" THEN {} ELSE StkBelow(L, L[l].body))

\* Packet._set_bodyhandler(h) on layer record r (h = 0: None)
StkSetBodyHandler(r, h) ==
  IF h = 0
  THEN [r EXCEPT !.bodytypename = "None", !.body = 0,
                 !.data = IF r.data = NoneB THEN <<>> ELSE r.data]
  ELSE [r EXCEPT !.bodytypename = TypeOf(h), !.body = h, !.data = NoneB,
                 !.packet_changed = "true"]

RECURSIVE GetItemWalk(_, _, _, _, _)
\* the loop of Packet.__getitem__ called on layer self, at p_instance, for
\* type k.  The next instance is read with getattr(self, ...): self has that
\* attribute only when it is self's own bodytypename.  seen holds the
\* instances the loop was at; coming back to one of them, it never ends.
GetItemWalk(L, self, p_instance, k, seen) ==
  IF TypeOf(p_instance) = k THEN [kind |-> "ok", obj |-> p_instance]
  ELSE IF L[p_instance].bodytypename = "None" THEN [kind |-> "ok", obj |-> 0]
  ELSE IF L[self].bodytypename # L[p_instance].bodytypename
       THEN [kind |-> "AttributeError", obj |-> 0]
  ELSE IF L[self].body \in seen THEN [kind |-> "hang", obj |-> 0]
  ELSE GetItemWalk(L, self, L[self].body, k, seen \cup {L[self].body})

\* Packet.__getitem__
GetItem(L, self, k) == GetItemWalk(L, self, self, k, {self})

\* a / b for two layers.  b's stack does not hold a's deepest layer (the
\* stack stays a chain).
StkDiv(a, b) ==
  /\ StkDeepest(stk.layer, a) \notin StkBelow(stk.layer, b)
  /\ LET d == StkDeepest(stk.layer, a)
     IN stk' = [ layer |-> [stk.layer EXCEPT ![d] = StkSetBodyHandler(@, b)],
                 call |-> [op |-> "div", a |-> a, b |-> b, k |-> ""],
                 res |-> [kind |-> "ok", obj |-> a] ]
  /\ UNCHANGED <<obj, tl, ret, origin, nops, ip6, reg, ck, acc, frag, klass, trig>>

\* a / b"...": Error("Can not concat bytes")
StkDivBytes(a) ==
  /\ stk' = [ stk EXCEPT !.call = [op |-> "div", a |-> a, b |-> 0, k |-> ""],
                         !.res = [kind |-> "Error", obj |-> 0] ]
  /\ UNCHANGED <<obj, tl, ret, origin, nops, ip6, reg, ck, acc, frag, klass, trig>>

\* a._set_bodyhandler(None)
StkDetach(a) ==
  /\ stk.layer[a].bodytypename # "None"
  /\ stk' = [ layer |-> [stk.layer EXCEPT ![a] = StkSetBodyHandler(@, 0)],
              call |-> [op |-> "detach", a |-> a, b |-> 0, k |-> ""],
              res |-> [kind |-> "ok", obj |-> 0] ]
  /\ UNCHANGED <<obj, tl, ret, origin, nops, ip6, reg, ck, acc, frag, klass, trig>>

\* p[k]
StkGetItem(p, k) ==
  /\ stk' = [ stk EXCEPT !.call = [op |-> "getitem", a |-> p, b |-> 0, k |-> k],
                         !.res = GetItem(stk.layer, p, k) ]
  /\ UNCHANGED <<obj, tl, ret, origin, nops, ip6, reg, ck, acc, frag, klass, trig>>

NextStack ==
  \/ \E a \in StackObjs, b \in StackObjs : StkDiv(a, b)
  \/ \E a \in StackObjs : StkDivBytes(a)
  \/ \E a \in StackObjs : StkDetach(a)
  \/ \E p \in StackObjs, k \in LookupTypes : StkGetItem(p, k)

\* ------------------------------------------------------------ handler registry
\* A glob dictionary handed to load_handler holds at most MaxGlob items.
MaxGlob == 2

\* class_ref_add.__name__ of the owner classes: Packet._handler is keyed by it
Owners == {"IP", "TCP"}

\* protocol ids and handler classes the globals name
HandlerIds == {1, 2}
HandlerClasses == {"AAA", "BBB"}

\* One item of glob, in the order of glob.items():
\*   kind "other"    the name does not start with globalvar_prefix
\*        "noimport" no module of that name under any entry of modnames
\*        "noclass"  a module of that name is imported but has no such class
\*        "class"    module and class are found: class cls, value ids
\*                   (one id when the value is an int: list is FALSE)
GlobItems ==
  { [kind |-> k, list |-> FALSE, ids |-> <<1>>, cls |-> "AAA"] :
      k \in {"other", "noimport", "noclass"} }
  \cup { [kind |-> "class", list |-> FALSE, ids |-> <<i>>, cls |-> c] :
           i \in HandlerIds, c \in HandlerClasses }
  \cup { [kind |-> "class", list |-> TRUE, ids |-> <<1, 2>>, cls |-> c] :
           c \in HandlerClasses }

Globs == SeqsUpTo(GlobItems, MaxGlob)

\* Packet._handler = {}: no owner has an entry.  An entry maps ids to
\* classes ("None": the id is no key of the entry).
NoEntry == [loaded |-> FALSE, map |-> [i \in HandlerIds |-> "None"]]

RegInit ==
  [ handler |-> [o \in Owners |-> NoEntry],
    call |-> [owner |-> "None", had |-> FALSE],
    res |-> "ok" ]

AlreadyLoadedNever(h, name) == FALSE
\* the try block of __load_handler: Packet._handler[name] exists
AlreadyLoaded(h, name) == h[name].loaded

RECURSIVE FillHandler(_, _)
\* the loop of __load_handler over glob.items(), filling entry map m.  Only
\* ImportError is caught; the AttributeError of getattr(mod, classname)
\* escapes, and so does the UnboundLocalError of the debug message for a
\* list value, which reads vk before the loop that binds it.
FillHandler(m, glob) ==
  IF glob = <<>> THEN [map |-> m, kind |-> "ok"]
  ELSE LET e == Head(glob)
       IN IF e.kind \in {"other", "noimport"} THEN FillHandler(m, Tail(glob))
          ELSE IF e.kind = "noclass" THEN [map |-> m, kind |-> "AttributeError"]
          ELSE IF e.list THEN [map |-> m, kind |-> "UnboundLocalError"]
          ELSE FillHandler([m EXCEPT ![e.ids[1]] = e.cls], Tail(glob))

\* Packet.load_handler(glob, class_ref_add, globalvar_prefix, modnames)
LoadHandler(owner, glob) ==
  /\ reg' =
       IF AlreadyLoaded(reg.handler, owner)
       THEN [ reg EXCEPT !.call = [owner |-> owner, had |-> TRUE], !.res = "ok" ]
       ELSE LET f == FillHandler(NoEntry.map, glob)
            IN [ handler |-> [reg.handler EXCEPT ![owner] = [loaded |-> TRUE, map |-> f.map]],
                 call |-> [owner |-> owner, had |-> FALSE],
                 res |-> f.kind ]
  /\ UNCHANGED <<obj, tl, ret, origin, nops, ip6, stk, ck, acc, frag, klass, trig>>

NextReg == \E owner \in Owners : \E glob \in Globs : LoadHandler(owner, glob)

\* ------------------------------------------------------------ checksum
\* A buffer handed to the checksum functions holds at most MaxCkLen bytes
\* (the reference buffer of 20 zero bytes aside).
MaxCkLen == 3

CkBytes == {0, 1, 255}

ZeroBuf == [i \in 1..20 |-> 0]

\* pairs (x, y) of buffers that are summed one after the other
CkInputs ==
  (SeqsUpTo(CkBytes, MaxCkLen) \X SeqsUpTo(CkBytes, MaxCkLen))
    \cup { <<ZeroBuf, <<>>>>, <<SubSeq(ZeroBuf, 1, 7), SubSeq(ZeroBuf, 8, 20)>> }

\* the byte order of the machine: array('H') and struct's 'H' without a
\* byte order character are native
ByteOrders == {"little", "big"}

CkIdle ==
  [ pc |-> "idle", order |-> "little", x |-> <<>>, y |-> <<>>, s |-> 0,
    res |-> 0, whole |-> 0 ]

\* the unsigned short made of two bytes in native order
Word(b0, b1) == IF ck.order = "little" THEN b0 + 256 * b1 ELSE 256 * b0 + b1

RECURSIVE SumWords(_)
\* sum(array.array('H', buf)) for a buffer of even length
SumWords(buf) ==
  IF Len(buf) < 2 THEN 0
  ELSE Word(buf[1], buf[2]) + SumWords(SubSeq(buf, 3, Len(buf)))

\* in_cksum_add(s, buf): the 16 bit words of buf, a last odd byte padded
\* with a zero byte, added to s
in_cksum_add(s, buf) ==
  LET n == Len(buf)
      cnt == (n \div 2) * 2
  IN s + SumWords(Slice(buf, 0, cnt)) + (IF cnt # n THEN Word(buf[n], 0) ELSE 0)

\* socket.ntohs
ntohs(x) == IF ck.order = "little" THEN (x % 256) * 256 + (x \div 256) ELSE x

in_cksum_doneUnmasked(s) == ntohs(65535 - s)
\* in_cksum_done(s): s = (s >> 16) + (s & 0xffff); s += (s >> 16);
\* ntohs(~s & 0xffff)
in_cksum_done(s) ==
  LET s1 == (s \div 65536) + (s % 65536)
      s2 == s1 + (s1 \div 65536)
  IN ntohs(65535 - (s2 % 65536))

\* in_cksum(buf)
in_cksum(buf) == in_cksum_done(in_cksum_add(0, buf))

CkOthersIdle == UNCHANGED <<obj, tl, ret, origin, nops, ip6, stk, reg, acc, frag, klass, trig>>

\* a caller on a machine of byte order o sets out to sum x, then y
CkStart ==
  /\ ck.pc = "idle"
  /\ \E o \in ByteOrders : \E in \in CkInputs :
       ck' = [ CkIdle EXCEPT !.pc = "start", !.order = o, !.x = in[1], !.y = in[2] ]
  /\ CkOthersIdle

\* s = in_cksum_add(0, x)
CkAddX ==
  /\ ck.pc = "start"
  /\ ck' = [ ck EXCEPT !.pc = "added_x", !.s = in_cksum_add(0, ck.x) ]
  /\ CkOthersIdle

\* s = in_cksum_add(s, y)
CkAddY ==
  /\ ck.pc = "added_x"
  /\ ck' = [ ck EXCEPT !.pc = "added_y", !.s = in_cksum_add(ck.s, ck.y) ]
  /\ CkOthersIdle

\* res = in_cksum_done(s)
CkDone ==
  /\ ck.pc = "added_y"
  /\ ck' = [ ck EXCEPT !.pc = "done", !.res = in_cksum_done(ck.s) ]
  /\ CkOthersIdle

\* whole = in_cksum(x + y)
CkWhole ==
  /\ ck.pc = "done"
  /\ ck' = [ ck EXCEPT !.pc = "compared", !.whole = in_cksum(ck.x \o ck.y) ]
  /\ CkOthersIdle

NextCk == CkStart \/ CkAddX \/ CkAddY \/ CkDone \/ CkWhole

\* ------------------------------------------------------------ IP6: accessors
\* Two IP6 layers, their address fields, and the two accessors that read
\* them: IP6._direction and IP6.callback_impl.  An address ("16s") is one of
\* MaxAddr + 1 distinct 16 byte values, named by its number.
MaxAddr == 1

Addrs == 0..MaxAddr

IP6Layers == {"a", "b"}

CallbackIds == {"ip_src_dst_changed", "ip_len", ""}

\* Packet.DIR_SAME, Packet.DIR_REV, Packet.DIR_UNKNOWN
DIR_SAME == "same direction"
DIR_REV == "reverse"
DIR_UNKNOWN == "unrelated"

\* a layer as the accessors see it: src, dst and the header's dirty flag
NewIP6Layer == [src |-> 0, dst |-> 0, header_changed |-> TRUE]

NoAnswer == [kind |-> "None", src |-> NoneI, dst |-> NoneI, changed |-> FALSE, dir |-> ""]

AccInit ==
  [layer |-> [l \in IP6Layers |-> NewIP6Layer],
   call |-> [op |-> "None", self |-> "a", next |-> "a", id |-> ""],
   res |-> NoAnswer]

_directionRevFirst(self, next) ==
  IF self.src = next.dst /\ self.dst = next.src THEN DIR_REV
  ELSE IF self.src = next.src /\ self.dst = next.dst THEN DIR_SAME
  ELSE DIR_UNKNOWN

\* IP6._direction(self, next)
_direction(self, next) ==
  IF self.src = next.src /\ self.dst = next.dst THEN DIR_SAME
  ELSE IF self.src = next.dst /\ self.dst = next.src THEN DIR_REV
  ELSE DIR_UNKNOWN

callback_implAnyId(self, id) ==
  [kind |-> "tuple", src |-> self.src, dst |-> self.dst,
   changed |-> self.header_changed, dir |-> ""]

\* IP6.callback_impl(self, id): a tuple for the one known id, None otherwise
callback_impl(self, id) ==
  IF id = "ip_src_dst_changed"
  THEN [kind |-> "tuple", src |-> self.src, dst |-> self.dst,
        changed |-> self.header_changed, dir |-> ""]
  ELSE NoAnswer

AccOthersIdle == UNCHANGED <<obj, tl, ret, origin, nops, ip6, stk, reg, ck, frag, klass, trig>>

\* l.src = v or l.dst = v: a header field assignment marks the header changed
AccSetAddr(l, k, v) ==
  /\ acc' = [acc EXCEPT !.layer[l] = [@ EXCEPT ![k] = v, !.header_changed = TRUE],
                        !.call = [op |-> "set", self |-> l, next |-> l, id |-> k],
                        !.res = NoAnswer]
  /\ AccOthersIdle

\* l.bin(): the header is encoded, which clears the dirty flag
AccEncode(l) ==
  /\ acc.layer[l].header_changed
  /\ acc' = [acc EXCEPT !.layer[l].header_changed = FALSE,
                        !.call = [op |-> "bin", self |-> l, next |-> l, id |-> ""],
                        !.res = NoAnswer]
  /\ AccOthersIdle

\* self._direction(next)
AccDirection(self, next) ==
  /\ acc' = [acc EXCEPT !.call = [op |-> "_direction", self |-> self, next |-> next, id |-> ""],
                        !.res = [NoAnswer EXCEPT !.kind = "dir",
                                   !.dir = _direction(acc.layer[self], acc.layer[next])]]
  /\ AccOthersIdle

\* self.callback_impl(id)
AccCallback(self, id) ==
  /\ acc' = [acc EXCEPT !.call = [op |-> "callback_impl", self |-> self, next |-> self, id |-> id],
                        !.res = callback_impl(acc.layer[self], id)]
  /\ AccOthersIdle

NextAcc ==
  \/ \E l \in IP6Layers : \E k \in {"src", "dst"} : \E v \in Addrs : AccSetAddr(l, k, v)
  \/ \E l \in IP6Layers : AccEncode(l)
  \/ \E s \in IP6Layers, n \in IP6Layers : AccDirection(s, n)
  \/ \E s \in IP6Layers : \E id \in CallbackIds : AccCallback(s, id)

\* ------------------------------------------------------------ IP6FragmentHeader
\* The 16 bit field frag_off_resv_m of IP6FragmentHeader and the properties
\* frag_off (bits 3..15) and m_flag (bit 0) defined on it; bits 1..2 are
\* reserved.
FragBytes == {0, 1, 6, 9, 255}

\* values assigned to frag_off: 13 bit
FragOffVals == {0, 1, 4096, 8191}

RECURSIVE BitOr(_, _)
\* x | y on non-negative ints
BitOr(x, y) ==
  IF x = 0 THEN y
  ELSE IF y = 0 THEN x
  ELSE (IF x % 2 = 1 \/ y % 2 = 1 THEN 1 ELSE 0) + 2 * BitOr(x \div 2, y \div 2)

RECURSIVE AndNot(_, _)
\* x & ~mask on non-negative ints
AndNot(x, mask) ==
  IF x = 0 THEN 0
  ELSE (IF x % 2 = 1 /\ mask % 2 = 0 THEN 1 ELSE 0) + 2 * AndNot(x \div 2, mask \div 2)

\* IP6FragmentHeader.__get_frag_off
get_frag_off(w) == w \div 8

\* IP6FragmentHeader.__set_frag_off: (w & ~0xfff8) | (v << 3)
set_frag_off(w, v) == BitOr(AndNot(w, 65528), v * 8)

\* IP6FragmentHeader.__get_m_flag
get_m_flag(w) == w % 2

\* IP6FragmentHeader.__set_m_flag: (w & ~0xfffe) | v
set_m_flag(w, v) == BitOr(AndNot(w, 65534), v)

\* the two reserved bits of the field
ResvBits(w) == (w \div 2) % 4

\* IP6FragmentHeader.__hdr__ defaults (resv and id are not modelled)
FragInit == [nxt |-> 0, frag_off_resv_m |-> 0, call |-> [op |-> "None", v |-> 0]]

FragOthersIdle == UNCHANGED <<obj, tl, ret, origin, nops, ip6, stk, reg, ck, acc, klass, trig>>

\* IP6FragmentHeader(buf): byte 0 is nxt, bytes 2..3 unpack as ">H"
FragUnpack(n, b0, b1) ==
  /\ frag' = [nxt |-> n, frag_off_resv_m |-> b0 * 256 + b1,
              call |-> [op |-> "unpack", v |-> 0]]
  /\ FragOthersIdle

\* f.m_flag = v
FragSetMFlag(v) ==
  /\ frag' = [frag EXCEPT !.frag_off_resv_m = set_m_flag(@, v),
                          !.call = [op |-> "m_flag", v |-> v]]
  /\ FragOthersIdle

\* f.frag_off = v
FragSetFragOff(v) ==
  /\ frag' = [frag EXCEPT !.frag_off_resv_m = set_frag_off(@, v),
                          !.call = [op |-> "frag_off", v |-> v]]
  /\ FragOthersIdle

NextFrag ==
  \/ \E n \in FragBytes, b0 \in FragBytes, b1 \in FragBytes : FragUnpack(n, b0, b1)
  \/ \E v \in {0, 1} : FragSetMFlag(v)
  \/ \E v \in FragOffVals : FragSetFragOff(v)

\* ------------------------------------------------------------ class and instances
\* The attributes MetaPacket.__new__ stores on a class and the instances that
\* read them.  An attribute an instance has not assigned is looked up on the
\* class; own is the set of attributes the instance holds itself.  The listener
\* list is the one attribute changed in place (+=): while it is not in own, the
\* list the instance sees is the class's list object.
MaxListeners == 2

\* the instance operated on and another instance of the same class
Insts == {"i1", "i2"}

\* the callable handed to add_change_listener
Callbacks == {"cb"}

SchemaAttrs == {"hdr_fields", "hdr_fmt", "fnn", "fmtstr", "hdr_len", "changelistener"}

\* values given to a header field of the schema class, None among them
SchemaVals == {NoneI, 1}

\* class attributes of Foo after MetaPacket.__new__
ClassAttrs ==
  LET n == NewLayer("Foo")
  IN [ hdr_fields |-> n.hdr_fields, hdr_fmt |-> n.hdr_fmt, fnn |-> n.fnn,
       fmtstr |-> n.fmtstr, hdr_len |-> n.hdr_len, changelistener |-> <<>>,
       val |-> n.val ]

\* an instance: no attribute of its own
NewInst(alive) ==
  [ alive |-> alive, own |-> {}, hdr_fields |-> <<>>, hdr_fmt |-> <<>>, fnn |-> <<>>,
    fmtstr |-> <<>>, hdr_len |-> 0, changelistener |-> <<>>, val |-> ClassAttrs.val ]

KlassInit == [ cls |-> ClassAttrs, inst |-> [i \in Insts |-> NewInst(FALSE)],
               call |-> [op |-> "None", self |-> "i1"] ]

\* attribute lookup: the instance's own attribute, else the class attribute
GetAttr(k, i, attr) ==
  IF attr \in k.inst[i].own THEN k.inst[i][attr] ELSE k.cls[attr]

\* the layout attributes of instance i as a layer record
Effective(k, i) ==
  [ hdr_fields |-> GetAttr(k, i, "hdr_fields"), hdr_fmt |-> GetAttr(k, i, "hdr_fmt"),
    fnn |-> GetAttr(k, i, "fnn"), fmtstr |-> GetAttr(k, i, "fmtstr"),
    hdr_len |-> GetAttr(k, i, "hdr_len"), val |-> k.inst[i].val ]

\* __update_fmtstr on instance i: the three results are stored on the instance
InstUpdateFmtstr(x, e) ==
  LET u == UpdateFmtstr(e, NewTL).r
  IN [x EXCEPT !.own = @ \cup {"fnn", "fmtstr", "hdr_len"},
               !.fnn = u.fnn, !.fmtstr = u.fmtstr, !.hdr_len = u.hdr_len]

KlassOthersIdle ==
  UNCHANGED <<obj, tl, ret, origin, nops, ip6, stk, reg, ck, acc, frag, trig>>

\* Foo(): a new instance
KlassNew(i) ==
  /\ ~klass.inst[i].alive
  /\ klass' = [klass EXCEPT !.inst[i] = NewInst(TRUE), !.call = [op |-> "new", self |-> i]]
  /\ KlassOthersIdle

\* i.f = v for a header field f
KlassSetField(i, f, v) ==
  /\ klass.inst[i].alive
  /\ f \in Range(GetAttr(klass, i, "hdr_fields"))
  /\ LET x == klass.inst[i]
         x1 == [x EXCEPT !.val[f] = v]
         e1 == [Effective(klass, i) EXCEPT !.val = x1.val]
         x2 == IF (v = NoneI) # (x.val[f] = NoneI) THEN InstUpdateFmtstr(x1, e1) ELSE x1
     IN klass' = [klass EXCEPT !.inst[i] = x2, !.call = [op |-> "set", self |-> i]]
  /\ KlassOthersIdle

\* i._add_headerfield("c", "B", v)
KlassAddHeaderField(i, v) ==
  /\ klass.inst[i].alive
  /\ "c" \notin Range(GetAttr(klass, i, "hdr_fields"))
  /\ LET x == klass.inst[i]
         x1 == [x EXCEPT !.own = @ \cup {"hdr_fields", "hdr_fmt"},
                         !.hdr_fields = Append(GetAttr(klass, i, "hdr_fields"), "c"),
                         !.hdr_fmt = Append(GetAttr(klass, i, "hdr_fmt"), "B"),
                         !.val = [n \in DOMAIN x.val \cup {"c"} |->
                                    IF n = "c" THEN v ELSE x.val[n]]]
         e1 == [Effective(klass, i) EXCEPT !.hdr_fields = x1.hdr_fields,
                                           !.hdr_fmt = x1.hdr_fmt, !.val = x1.val]
         x2 == IF v # NoneI THEN InstUpdateFmtstr(x1, e1) ELSE x1
     IN klass' = [klass EXCEPT !.inst[i] = x2, !.call = [op |-> "add", self |-> i]]
  /\ KlassOthersIdle

ReinitSharedNever(k, i) == FALSE

\* add_change_listener: the list is replaced by a new one when it is empty
ReinitShared(k, i) == Len(GetAttr(k, i, "changelistener")) = 0

\* i.add_change_listener(cb): self._changelistener += [cb] extends the list
\* object in place and binds it to the instance
KlassAddListener(i, cb) ==
  /\ klass.inst[i].alive
  /\ Len(GetAttr(klass, i, "changelistener")) < MaxListeners
  /\ LET k1 == IF ReinitShared(klass, i)
               THEN [klass EXCEPT !.inst[i].own = @ \cup {"changelistener"},
                                  !.inst[i].changelistener = <<>>]
               ELSE klass
         k2 == IF "changelistener" \in k1.inst[i].own
               THEN [k1 EXCEPT !.inst[i].changelistener = Append(@, cb)]
               ELSE [k1 EXCEPT !.cls.changelistener = Append(@, cb)]
     IN klass' = [k2 EXCEPT !.call = [op |-> "listen", self |-> i]]
  /\ KlassOthersIdle

NextKlass ==
  \/ \E i \in Insts : KlassNew(i)
  \/ \E i \in Insts : \E f \in {"a", "b", "c"} : \E v \in SchemaVals : KlassSetField(i, f, v)
  \/ \E i \in Insts : \E v \in SchemaVals : KlassAddHeaderField(i, v)
  \/ \E i \in Insts : \E cb \in Callbacks : KlassAddListener(i, cb)

\* ------------------------------------------------------------ TriggerList operations
\* A TriggerList subclass whose pack() is overwritten, the operations a caller
\* applies to it and what pack_cb returns.  Elements are a Packet ("P"), two
\* tuples ("T1", "T2") and a value that is neither ("X").
MaxTrigLen == 2

Elems == {"P", "T1", "T2", "X"}

KindOf(e) == IF e = "P" THEN "packet" ELSE IF e \in {"T1", "T2"} THEN "tuple" ELSE "other"

\* __cached_result is None
NoCache == <<"None">>

\* the overwritten pack(): bytes determined by the elements in order
pack(items) == items

NoTrigRes == [kind |-> "None", bytes |-> NoCache, hook |-> FALSE, packed |-> FALSE]

\* TriggerList.__init__; owner_changed is packet.packet_changed of the owner
TrigInit ==
  [ items |-> <<>>, cached_result |-> NoCache, packet |-> "None",
    owner_changed |-> FALSE, call |-> "None", res |-> NoTrigRes ]

\* TriggerList.__format on list t, as the last step of operation op
format(t, op) ==
  [t EXCEPT !.cached_result = NoCache,
            !.owner_changed = IF t.packet = "None" THEN @ ELSE TRUE,
            !.call = op,
            !.res = [NoTrigRes EXCEPT !.kind = "ok", !.hook = t.packet # "None"]]

\* TriggerList.__handle_mod(val) on list t: a Packet is asked for
\* add_change_listener_cb, which no Packet has, and __format is not reached
handle_mod(t, kind, op) ==
  IF kind = "packet"
  THEN [t EXCEPT !.call = op, !.res = [NoTrigRes EXCEPT !.kind = "AttributeError"]]
  ELSE format(t, op)

TrigOthersIdle ==
  UNCHANGED <<obj, tl, ret, origin, nops, ip6, stk, reg, ck, acc, frag, klass>>

\* owner._add_headerfield(name, "", t): t.packet and t.format_cb are set
TrigAttach ==
  /\ trig.packet = "None"
  /\ trig' = [trig EXCEPT !.packet = "owner", !.call = "attach", !.res = NoTrigRes]
  /\ TrigOthersIdle

\* the owner is encoded: bin() clears packet_changed
TrigOwnerBin ==
  /\ trig.packet # "None"
  /\ trig.owner_changed
  /\ trig' = [trig EXCEPT !.owner_changed = FALSE, !.call = "bin", !.res = NoTrigRes]
  /\ TrigOthersIdle

\* t.append(e): list.append, which TriggerList does not overwrite
TrigAppend(e) ==
  /\ Len(trig.items) < MaxTrigLen
  /\ trig' = [trig EXCEPT !.items = Append(@, e), !.call = "append",
                          !.res = [NoTrigRes EXCEPT !.kind = "ok"]]
  /\ TrigOthersIdle

\* t += [e]: __handle_mod gets the list [e]
TrigIAdd(e) ==
  /\ Len(trig.items) < MaxTrigLen
  /\ trig' = handle_mod([trig EXCEPT !.items = Append(@, e)], "list", "iadd")
  /\ TrigOthersIdle

\* del t[i]: __handle_mod gets the index
TrigDelItem(i) ==
  /\ i \in DOMAIN trig.items
  /\ trig' = handle_mod([trig EXCEPT !.items = SubSeq(@, 1, i - 1) \o SubSeq(@, i + 1, Len(@))],
                        "int", "delitem")
  /\ TrigOthersIdle

\* t[i] = e: __handle_mod gets the element
TrigSetItem(i, e) ==
  /\ i \in DOMAIN trig.items
  /\ trig' = handle_mod([trig EXCEPT !.items[i] = e], KindOf(e), "setitem")
  /\ TrigOthersIdle

\* t.pack_cb()
TrigPackCb ==
  /\ LET miss == trig.cached_result = NoCache
         c == IF miss THEN pack(trig.items) ELSE trig.cached_result
     IN trig' = [trig EXCEPT !.cached_result = c, !.call = "pack_cb",
                             !.res = [kind |-> "ok", bytes |-> c, hook |-> FALSE,
                                      packed |-> miss]]
  /\ TrigOthersIdle

NextTrig ==
  \/ TrigAttach
  \/ TrigOwnerBin
  \/ \E e \in Elems : TrigAppend(e)
  \/ \E e \in Elems : TrigIAdd(e)
  \/ \E i \in 1..MaxTrigLen : TrigDelItem(i)
  \/ \E i \in 1..MaxTrigLen : \E e \in Elems : TrigSetItem(i, e)
  \/ TrigPackCb

\* ------------------------------------------------------------ specification
Init ==
  /\ obj = [l \in Layers |-> NoLayer(ClassOf(l))]
  /\ tl = NewTL
  /\ ret = "ok"
  /\ origin = [l \in Layers |-> NoneB]
  /\ nops = 0
  /\ ip6 = IP6Idle
  /\ stk = StkInit
  /\ reg = RegInit
  /\ ck = CkIdle
  /\ acc = AccInit
  /\ frag = FragInit
  /\ klass = KlassInit
  /\ trig = TrigInit

Next ==
  \/ \E l \in Layers : \E b \in Buffers(l) : ConstructBuf(l, b)
  \/ \E l \in Layers : \E kw \in KwChoices(l) : ConstructKw(l, kw)
  \/ \E l \in Layers : \E k \in SchemaFields(l) :
       \E v \in AssignVals(SchemaFmt(l, k)) : SetField(l, k, v)
  \/ \E l \in Layers : \E v \in DataVals \cup {NoneB} : SetData(l, v)
  \/ \E l \in Layers : \E h \in Layers \cup {"None"} : SetBodyHandler(l, h)
  \/ \E a \in Layers, b \in Layers : Div(a, b)
  \/ \E l \in Layers : Bin(l)
  \/ AddHeaderField("p")
  \/ \E e \in Upper("p") : TLIAdd(e)
  \/ \E e \in Upper("p") : \E i \in 1..MaxTL : TLSetItem(i, e)

Spec == Init /\ [][Next]_vars

SpecStack == Init /\ [][NextStack]_vars

SpecReg == Init /\ [][NextReg]_vars

SpecCk == Init /\ [][NextCk]_vars

SpecAdd == Init /\ [][NextAdd]_vars

SpecAcc == Init /\ [][NextAcc]_vars

SpecFrag == Init /\ [][NextFrag]_vars

SpecKlass == Init /\ [][NextKlass]_vars

SpecTrig == Init /\ [][NextTrig]_vars

\* ------------------------------------------------------------ IP6: inputs
\* A buffer handed to IP6(...) is a fixed header followed by at most MaxSegs
\* segments, each an 8 byte unit or a further fixed header.
MaxSegs == 2

\* protocol numbers (pypacker.layer3.ip_shared)
IP_PROTO_HOPOPTS == 0
IP_PROTO_TCP == 6
IP_PROTO_IP6 == 41
IP_PROTO_ROUTING == 43
IP_PROTO_FRAGMENT == 44
IP_PROTO_ESP == 50
IP_PROTO_AH == 51
IP_PROTO_NONE == 59
IP_PROTO_DSTOPTS == 60

\* the set ext_hdrs
ext_hdrs ==
  { IP_PROTO_HOPOPTS, IP_PROTO_ROUTING, IP_PROTO_FRAGMENT, IP_PROTO_AH,
    IP_PROTO_ESP, IP_PROTO_DSTOPTS }

\* struct.calcsize of IP6.__hdr__: "I", "H", "B", "B", "16s", "16s"
IP6HdrLen == 4 + 2 + 1 + 1 + 16 + 16

\* buf[i] with python's 0-based index (the caller checks i < len(buf))
At(buf, i) == buf[i + 1]

\* next-header values and length indicators the input buffers use
NxtBytes == ext_hdrs \cup { IP_PROTO_TCP, IP_PROTO_IP6, IP_PROTO_NONE }
Indicators == { 0, 1 }

\* the 40 bytes of a fixed IP6 header with nxt = n (v_fc_flow = 0x60000000)
FixedHdr(n) == [i \in 1..IP6HdrLen |-> IF i = 1 THEN 96 ELSE IF i = 7 THEN n ELSE 0]

\* 8 bytes that start with a next-header byte and a length indicator
Unit(n, ind) == <<n, ind, 0, 0, 0, 0, 0, 0>>

Segs ==
  { Unit(n, ind) : n \in NxtBytes \ {IP_PROTO_NONE}, ind \in Indicators }
    \cup { FixedHdr(n) : n \in { IP_PROTO_IP6, IP_PROTO_TCP } }

\* input buffers: whole ones, ones that lost their last 6 bytes, the empty
\* buffer and one that ends before the nxt byte
IP6Buffers ==
  { SubSeq(b, 1, Len(b) - c) :
      b \in { FixedHdr(n) \o Concat(ss) : n \in NxtBytes, ss \in SeqsUpTo(Segs, MaxSegs) },
      c \in { 0, 6 } }
    \cup { <<>>, SubSeq(FixedHdr(0), 1, 6) }

\* ------------------------------------------------------------ IP6: methods
\* The nesting depth up to which handler resolution constructs an upper layer
\* (the defensive bound the design requires of handler resolution; ip6.py
\* itself registers IP6 as the handler of IP_PROTO_IP6 without any limit).
MaxNestingDepth == 2

RECURSIVE OptsWalk(_, _, _)
\* the while loop of IP6OptsHeader._dissect over buf from offset off
OptsWalk(buf, off, length) ==
  IF ~(off < length) THEN "ok"
  ELSE IF off >= Len(buf) THEN "IndexError"
  ELSE IF At(buf, off) = 0 THEN OptsWalk(buf, off + 1, length)
  ELSE IF off + 1 >= Len(buf) THEN "IndexError"
  ELSE OptsWalk(buf, off + 2 + At(buf, off + 1), length)

\* IP6OptsHeader._dissect (IP6HopOptsHeader and IP6DstOptsHeader call it)
IP6OptsHeader_dissect(buf) ==
  IF Len(buf) < 2 THEN "IndexError" ELSE OptsWalk(buf, 2, 8 + At(buf, 1) * 8)

\* IP6RoutingHeader._dissect: self.buf is no attribute of a Packet
IP6RoutingHeader_dissect(buf) == "AttributeError"

IP6ESPHeaderSkipped_dissect(buf) == "ok"
\* IP6ESPHeader._dissect
IP6ESPHeader_dissect(buf) == "NotImplementedError"

\* ext_hdrs_cls[t](buf): the outcome of constructing the sub-header class
\* registered for type t from buf ("ok" or the exception that escapes)
ext_hdrs_cls(t, buf) ==
  IF buf = <<>> THEN "NeedData"
  ELSE IF t = IP_PROTO_ESP THEN IP6ESPHeader_dissect(buf)
  ELSE IF t = IP_PROTO_ROUTING THEN IP6RoutingHeader_dissect(buf)
  ELSE IF t \in { IP_PROTO_HOPOPTS, IP_PROTO_DSTOPTS }
       THEN IF IP6OptsHeader_dissect(buf) = "ok" THEN UnpackStatic(buf, 2)
            ELSE IP6OptsHeader_dissect(buf)
  ELSE IF t = IP_PROTO_FRAGMENT THEN UnpackStatic(buf, 1 + 1 + 2 + 4)
  ELSE UnpackStatic(buf, 1 + 1 + 2 + 4 + 4)

ExtLenNoMinimum(ind) == ind * 8
\* len = 8 + buf[off + 1]*8
ExtLen(ind) == 8 + ind * 8

NextOffStuck(off, len) == off
\* off += len
NextOff(off, len) == off + len

\* self.hdr_len: the static header and every sub-header of the opts list
hdr_len_of(opts) == IP6HdrLen + SumSeq([i \in DOMAIN opts |-> Len(opts[i].bytes)])

\* the handler registered for IP6 under protocol number t
Resolve(t) ==
  IF t = IP_PROTO_IP6 THEN "IP6" ELSE IF t = IP_PROTO_TCP THEN "TCP" ELSE "raw"

\* the dissector state when IP6(b) starts on a non-empty buffer at depth d
Dissecting(b, d, total) ==
  [ IP6Idle EXCEPT !.buf = b, !.pc = "dissect", !.depth = d, !.total = total ]

Failed(st, e) == [ st EXCEPT !.pc = "error", !.err = e ]

\* ------------------------------------------------------------ IP6: actions
EngineIdle == UNCHANGED <<obj, tl, ret, origin, nops, stk, reg, ck, acc, frag, klass, trig>>

\* IP6(b): Packet.__init__ refuses the empty buffer, else _dissect runs
IP6Construct ==
  /\ ip6.pc = "idle"
  /\ \E b \in IP6Buffers :
       ip6' = IF Len(b) = 0
              THEN Failed([ IP6Idle EXCEPT !.depth = 1 ], "NeedData")
              ELSE Dissecting(b, 1, Len(b))
  /\ EngineIdle

\* IP6._dissect up to the loop: type_nxt = buf[6]; off = self._hdr_len; opts = []
IP6DissectStart ==
  /\ ip6.pc = "dissect"
  /\ ip6' = IF Len(ip6.buf) <= 6
            THEN Failed(ip6, "IndexError")
            ELSE [ ip6 EXCEPT !.pc = "loop", !.type_nxt = At(ip6.buf, 6),
                              !.off = IP6HdrLen, !.opts = <<>> ]
  /\ EngineIdle

\* one iteration of the loop "while type_nxt in ext_hdrs"
IP6LoopStep ==
  /\ ip6.pc = "loop"
  /\ ip6.type_nxt \in ext_hdrs
  /\ ip6' =
       IF ip6.off + 1 >= Len(ip6.buf) THEN Failed(ip6, "IndexError")
       ELSE LET len == ExtLen(At(ip6.buf, ip6.off + 1))
                sub == Slice(ip6.buf, ip6.off, ip6.off + len)
                res == ext_hdrs_cls(ip6.type_nxt, sub)
            IN IF res # "ok" THEN Failed(ip6, res)
               ELSE [ ip6 EXCEPT
                        !.opts = Append(@, [type |-> ip6.type_nxt, bytes |-> sub]),
                        !.type_nxt = At(ip6.buf, ip6.off),
                        !.off = NextOff(ip6.off, len),
                        !.iters = @ + 1 ]
  /\ EngineIdle

\* the loop ends on an upper layer type: self.opts.extend(opts)
IP6Extend ==
  /\ ip6.pc = "loop"
  /\ ip6.type_nxt \notin ext_hdrs
  /\ ip6' = [ ip6 EXCEPT !.pc = "handler", !.self_opts = @ \o ip6.opts ]
  /\ EngineIdle

\* self._parse_handler(type_nxt, buf, offset_start=self.hdr_len), then the
\* constructor unpacks the static header.  A handler is constructed on the
\* rest of the buffer; IP6 is the handler of IP_PROTO_IP6, and its decoding
\* continues here one level deeper.
IP6ParseHandler ==
  /\ ip6.pc = "handler"
  /\ LET rest == Slice(ip6.buf, hdr_len_of(ip6.self_opts), Len(ip6.buf))
         to == IF rest = <<>> THEN "raw" ELSE Resolve(ip6.type_nxt)
         h == [type |-> ip6.type_nxt, rest |-> rest, to |-> to]
     IN ip6' =
          IF UnpackStatic(ip6.buf, IP6HdrLen) # "ok"
          THEN Failed([ ip6 EXCEPT !.handed = h ], UnpackStatic(ip6.buf, IP6HdrLen))
          ELSE IF to = "IP6" /\ ip6.depth < MaxNestingDepth
          THEN [ Dissecting(rest, ip6.depth + 1, ip6.total) EXCEPT !.handed = h ]
          ELSE [ ip6 EXCEPT !.pc = "done", !.handed = [h EXCEPT !.to = IF to = "IP6" THEN "raw" ELSE to] ]
  /\ EngineIdle

NextIP6 ==
  \/ IP6Construct
  \/ IP6DissectStart
  \/ IP6LoopStep
  \/ IP6Extend
  \/ IP6ParseHandler

\* a decode that was started is carried on until it returns or raises
\* the steps of a decode in progress: the interpreter runs a call to its end
IP6Run == IP6DissectStart \/ IP6LoopStep \/ IP6Extend \/ IP6ParseHandler

SpecIP6 == Init /\ [][NextIP6]_vars /\ WF_vars(IP6Run)

\* ------------------------------------------------------------ claims: Packet engine
\* struct packing of the current values of r's fields that are not None, in
\* the order of r.hdr_fields (a field holding the TriggerList adds nothing:
\* its format is the empty string)
PackPresent(r) ==
  Concat([i \in DOMAIN r.hdr_fields |->
            IF r.val[r.hdr_fields[i]] \in {NoneI, TLRef} THEN <<>>
            ELSE PackVal(r.hdr_fmt[i], r.val[r.hdr_fields[i]])])

\* what a caller can observe of the layers besides the bytes bin() returns
Observable(o) ==
  [l \in Layers |->
     [ val |-> o[l].val, hdr_fields |-> o[l].hdr_fields, fnn |-> o[l].fnn,
       hdr_len |-> o[l].hdr_len, data |-> o[l].data,
       bodytypename |-> o[l].bodytypename, body |-> o[l].body ]]

\* C1: a layer constructed from buffer b and not mutated since encodes to b:
\* bin() returns bytes, and they are identical to b.
C1_RoundTrip ==
  \A l \in Layers :
    (obj[l].alive /\ origin[l] # NoneB) =>
      LET b == BinRec(obj, l) IN b.kind = "ok" /\ b.bytes = origin[l]

\* C2: whenever bin() returns bytes, its header part is the packing of the
\* layer's current present field values (the cache is used only while the
\* layer is clean).
C2_HeaderIsCurrent ==
  \A l \in Layers :
    obj[l].alive =>
      LET ph == PackHdr(obj, l)
      IN (ph.kind = "ok" /\ BinRec(obj, l).kind = "ok") => ph.bytes = PackPresent(obj[l])

\* C3: every constructed layer has exactly one body representation, raw
\* bytes or a body handler, and the assertions of bin() never fail.
C3_BodyInvariant ==
  \A l \in Layers :
    obj[l].alive =>
      /\ (obj[l].data # NoneB) # (obj[l].bodytypename # "None")
      /\ BinRec(obj, l).kind # "AssertionError"

\* C4: a header field assignment on a layer that is an element of the
\* TriggerList owned by a layer leaves that owner marked changed.
C4_DirtyPropagation ==
  [][ \A e \in Layers :
        ( /\ tl.packet # "None"
          /\ e \in Range(tl.items)
          /\ tl' = tl
          /\ obj[e].alive
          /\ obj'[e].val # obj[e].val )
        => obj'[tl.packet].packet_changed = "true" ]_vars

\* C5: assigning None to a present header field k takes exactly k out of the
\* present list and Width(k) off the header length, and the next encode packs
\* the other fields as before; assigning a value to an absent field puts k
\* back at its schema position with its width.
C5_AbsenceSemantics ==
  [][ \A l \in Layers : \A k \in SchemaFields(l) :
        LET r == obj[l]
            n == obj'[l]
            i == CHOOSE j \in DOMAIN r.hdr_fields : r.hdr_fields[j] = k
            w == Width(r.hdr_fmt[i])
            assigned == /\ r.alive
                        /\ n.val[k] # r.val[k]
                        /\ (n.val[k] = NoneI) # (r.val[k] = NoneI)
            present(x, f) == \E j \in DOMAIN x.fnn : x.fnn[j] = f
        IN /\ (assigned /\ n.val[k] = NoneI /\ present(r, k)) =>
                /\ n.hdr_len = r.hdr_len - w
                /\ ~present(n, k)
                /\ \A f \in SchemaFields(l) \ {k} : present(n, f) = present(r, f)
                /\ PackHdr(obj', l).kind = "ok"
                /\ PackHdr(obj', l).bytes = PackPresent(n)
           /\ (assigned /\ r.val[k] = NoneI /\ ~present(r, k)) =>
                /\ n.hdr_len = r.hdr_len + w
                /\ present(n, k)
                /\ \A f \in SchemaFields(l) \ {k} : present(n, f) = present(r, f)
                /\ PackHdr(obj', l).kind = "ok"
                /\ PackHdr(obj', l).bytes = PackPresent(n) ]_vars

\* C6: two calls of bin() with no mutation in between have the same outcome
\* (the same bytes, or the same failure), and neither changes a field value,
\* the present-field list, the header length or the body of any layer.
C6_IdempotentEncode ==
  \A l \in Layers :
    obj[l].alive =>
      LET b1 == BinRec(obj, l)
          b2 == BinRec(b1.o, l)
      IN /\ b1.kind = b2.kind
         /\ b1.bytes = b2.bytes
         /\ Observable(b1.o) = Observable(obj)
         /\ Observable(b2.o) = Observable(obj)

\* ------------------------------------------------------------ claims: IP6
\* the sub-header at the loop's offset lies inside the buffer: its length
\* indicator is there and so are all of its 8 + 8*indicator bytes
SubHeaderInside(st) ==
  /\ st.off + 1 < Len(st.buf)
  /\ st.off + 8 + 8 * At(st.buf, st.off + 1) <= Len(st.buf)

\* C7: the walk starts with the type code of byte 6 at the end of the fixed
\* header; for a type code of the extension set (the unimplemented ESP
\* aside) it decodes the sub-header of exactly 8 + 8*indicator bytes, appends
\* it and goes on with that sub-header's first byte; every entry appended is
\* exactly that long; and handler resolution gets the first non-extension
\* type code, one chain entry per iteration and the buffer from the offset
\* just past the last sub-header.
C7_ExtensionChainWalk ==
  [][ /\ (ip6.pc = "dissect" /\ ip6'.pc = "loop") =>
           (ip6'.type_nxt = At(ip6.buf, 6) /\ ip6'.off = IP6HdrLen)
      /\ ( /\ ip6.pc = "loop"
           /\ ip6.type_nxt \in ext_hdrs \ {IP_PROTO_ESP}
           /\ SubHeaderInside(ip6)
           /\ ip6' # ip6 ) =>
           /\ ip6'.pc = "loop"
           /\ ip6'.opts =
                Append(ip6.opts,
                       [ type |-> ip6.type_nxt,
                         bytes |-> SubSeq(ip6.buf, ip6.off + 1,
                                          ip6.off + 8 + 8 * At(ip6.buf, ip6.off + 1)) ])
           /\ ip6'.type_nxt = At(ip6.buf, ip6.off)
      /\ (ip6.pc = "loop" /\ Len(ip6'.opts) = Len(ip6.opts) + 1) =>
           Len(ip6'.opts[Len(ip6'.opts)].bytes) = 8 + 8 * At(ip6.buf, ip6.off + 1)
      /\ (ip6.pc = "handler" /\ ip6'.pc \in {"done", "dissect"}) =>
           /\ ip6.type_nxt \notin ext_hdrs
           /\ Len(ip6.self_opts) = ip6.iters
           /\ ip6'.handed.type = ip6.type_nxt
           /\ ip6'.handed.rest = Slice(ip6.buf, ip6.off, Len(ip6.buf)) ]_vars

\* C8: an iteration of the extension loop either ends the decode with an
\* exception or advances the offset by exactly 8 + 8*indicator bytes: by 8
\* when the indicator is 0, never by less than 8.
C8_ZeroLengthUnitSafety ==
  [][ (ip6.pc = "loop" /\ ip6.type_nxt \in ext_hdrs /\ ip6' # ip6) =>
        \/ ip6'.pc = "error" /\ ip6'.off = ip6.off /\ ip6'.iters = ip6.iters
        \/ /\ ip6'.pc = "loop"
           /\ ip6'.iters = ip6.iters + 1
           /\ ip6'.off = ip6.off + 8 + 8 * At(ip6.buf, ip6.off + 1)
           /\ ip6'.off >= ip6.off + 8
           /\ (At(ip6.buf, ip6.off + 1) = 0 => ip6'.off = ip6.off + 8) ]_vars

\* two sub-headers with indicator 0 were walked and took 8 bytes each
C8_Witness ==
  /\ ip6.pc = "loop"
  /\ ip6.iters = 2
  /\ At(ip6.buf, IP6HdrLen + 1) = 0
  /\ At(ip6.buf, IP6HdrLen + 8 + 1) = 0
  /\ ip6.off = IP6HdrLen + 16

\* a decode is in progress
Running(st) == st.pc \in {"dissect", "loop", "handler"}

\* a natural number that orders the states of a decode: first by the length
\* of the buffer of the layer being decoded, then by that layer's progress
Measure(st) ==
  LET L == Len(st.buf)
  IN IF st.pc = "dissect" THEN L * L + (L \div 8) + 2
     ELSE IF st.pc = "loop" THEN L * L + (L \div 8) + 1 - st.iters
     ELSE IF st.pc = "handler" THEN L * L
     ELSE 0

C11_ChainOverrun ==
  [][ ( /\ ip6.pc = "loop"
        /\ ip6.type_nxt \in ext_hdrs
        /\ ~SubHeaderInside(ip6)
        /\ ip6' # ip6 ) =>
        /\ ip6'.pc = "error"
        /\ ip6'.err = "UnpackError"
        /\ ip6'.opts = ip6.opts ]_vars

\* ------------------------------------------------------------ claims: construction and data
\* the fixed header length the schema defaults of layer l's class imply
SchemaHdrLen(l) ==
  LET st == Hdr(ClassOf(l))
  IN SumSeq([i \in DOMAIN st |-> IF st[i][3] = NoneI THEN 0 ELSE Width(st[i][2])])

C13_DataNoneRejected ==
  [][ \A l \in Layers :
        (SetData(l, NoneB) /\ obj[l].bodytypename = "None") =>
          /\ ret' = "Error"
          /\ obj' = obj
          /\ tl' = tl ]_vars

\* the assignment was refused on a layer that had been marked changed and
\* still holds its raw body
C13_Witness ==
  /\ ret = "Error"
  /\ \E l \in Layers :
       /\ obj[l].alive
       /\ obj[l].bodytypename = "None"
       /\ obj[l].data = <<1>>
       /\ obj[l].packet_changed = "true"

\* C14: assigning bytes v to data of a layer that has a body handler detaches
\* the handler: afterwards bodytypename is None, the handler attribute is
\* gone, data is v, the layer is marked changed and bin() returns the packing
\* of the layer's present fields followed by v.
C14_DataReplacesHandler ==
  [][ \A l \in Layers : \A v \in DataVals :
        (SetData(l, v) /\ obj[l].bodytypename # "None") =>
          /\ ret' = "ok"
          /\ obj'[l].bodytypename = "None"
          /\ obj'[l].body = "None"
          /\ obj'[l].data = v
          /\ obj'[l].packet_changed = "true"
          /\ BinRec(obj', l).kind = "ok"
          /\ BinRec(obj', l).bytes = PackPresent(obj'[l]) \o v ]_vars

\* ------------------------------------------------------------ claims: composition and lookup
\* the chains of layer objects a stack can be
StackPaths == SeqsUpTo(StackObjs, MaxObjs)

\* o lies in the stack that starts at a: body links lead from a to o
InStack(L, a, o) ==
  \E s \in StackPaths :
    /\ s # <<>>
    /\ s[1] = a
    /\ s[Len(s)] = o
    /\ \A i \in 1..(Len(s) - 1) :
         L[s[i]].bodytypename # "None" /\ L[s[i]].body = s[i + 1]

\* C15: a / b for layers a and b returns a and makes b the body of the one
\* layer of a's stack that has no body, under b's type name; every other
\* layer, those above that position included, is left as it was.  a / bytes
\* raises Error and changes no layer.
C15_StackComposition ==
  [][ (stk'.call.op = "div" /\ stk' # stk) =>
        LET a == stk'.call.a
            b == stk'.call.b
        IN IF b = 0
           THEN stk'.res.kind = "Error" /\ stk'.layer = stk.layer
           ELSE /\ stk'.res = [kind |-> "ok", obj |-> a]
                /\ \E d \in StackObjs :
                     /\ InStack(stk.layer, a, d)
                     /\ stk.layer[d].bodytypename = "None"
                     /\ stk'.layer[d].bodytypename = TypeOf(b)
                     /\ stk'.layer[d].body = b
                     /\ \A o \in StackObjs \ {d} : stk'.layer[o] = stk.layer[o] ]_vars

\* a / b was applied to a stack of two layers: b became the body of a's body
C15_Witness ==
  /\ stk.call.op = "div"
  /\ stk.call.b # 0
  /\ stk.res = [kind |-> "ok", obj |-> stk.call.a]
  /\ \E d \in StackObjs \ {stk.call.a} :
       /\ stk.layer[stk.call.a].body = d
       /\ stk.layer[d].body = stk.call.b

\* C16: p[k] returns the first layer of type k in the stack that starts at p
\* (the one all other layers of type k lie below), and None when the stack
\* has no layer of type k.
C16_LayerLookup ==
  stk.call.op = "getitem" =>
    LET p == stk.call.a
        k == stk.call.k
        hits == { o \in StackObjs : InStack(stk.layer, p, o) /\ TypeOf(o) = k }
    IN IF hits = {} THEN stk.res = [kind |-> "ok", obj |-> 0]
       ELSE /\ stk.res.kind = "ok"
            /\ stk.res.obj \in hits
            /\ \A o \in hits : InStack(stk.layer, stk.res.obj, o)

\* ------------------------------------------------------------ claims: encode errors
RECURSIVE BodyChain(_, _)
\* the layers bin() called on l encodes: l and the body handlers below it
BodyChain(o, l) ==
  {l} \cup (IF o[l].bodytypename = "None" THEN {} ELSE BodyChain(o, o[l].body))

\* a present field of r holds a value its layout cannot pack (None)
Unpackable(r) == \E i \in DOMAIN r.fnn : r.val[r.fnn[i]] = NoneI

\* C17: bin() called on a stack with a layer whose present-field values do
\* not match its layout raises PackError to the caller; it returns no bytes.
C17_EncodeErrorsReported ==
  [][ \A l \in Layers :
        (Bin(l) /\ \E m \in BodyChain(obj, l) : Unpackable(obj[m])) =>
          ret' = "PackError" ]_vars

\* ------------------------------------------------------------ claims: handler registry
\* C18: load_handler called for an owner that has an entry in the registry
\* leaves the whole registry as it is and returns without an error, whatever
\* glob holds; a call for an owner without an entry changes no entry of
\* another owner.
C18_LoadHandlerIdempotent ==
  [][ (reg' # reg) =>
        /\ \A o \in Owners \ {reg'.call.owner} : reg'.handler[o] = reg.handler[o]
        /\ reg.handler[reg'.call.owner].loaded =>
             (reg'.handler = reg.handler /\ reg'.res = "ok" /\ reg'.call.had) ]_vars

\* load_handler was called again for an owner whose entry maps both ids
C18_Witness ==
  /\ reg.call.had
  /\ reg.handler[reg.call.owner].loaded
  /\ \A i \in HandlerIds : reg.handler[reg.call.owner].map[i] # "None"
  /\ \E o \in Owners \ {reg.call.owner} : reg.handler[o].loaded

\* ------------------------------------------------------------ claims: checksum
\* C19: summing x and then y with in_cksum_add and folding once with
\* in_cksum_done gives the value of in_cksum over x + y, for x of even and
\* of odd length.
C19_ChecksumComposition ==
  ck.pc = "compared" => ck.res = ck.whole

\* C20: in_cksum over 20 zero bytes is 0xFFFF, and whatever was summed, the
\* result of in_cksum_done lies in 0..0xFFFF.
C20_ChecksumReference ==
  /\ ck.pc \in {"done", "compared"} => ck.res \in 0..65535
  /\ ck.pc = "compared" =>
       /\ ck.whole \in 0..65535
       /\ (ck.x \o ck.y = ZeroBuf) => (ck.whole = 65535 /\ ck.res = 65535)

\* the reference buffer was summed in two parts and as a whole
C20_Witness ==
  /\ ck.pc = "compared"
  /\ ck.x # <<>>
  /\ ck.y # <<>>
  /\ ck.x \o ck.y = ZeroBuf
  /\ ck.whole = 65535


\* ------------------------------------------------------------ claims: IP6 accessors
\* C21: a._direction(b) is "same direction" when a.src = b.src and a.dst = b.dst,
\* "reverse" when a.src = b.dst and a.dst = b.src and the same-order match does
\* not hold, and "unrelated" otherwise.
C21_DirectionClassification ==
  [][\A s \in IP6Layers, n \in IP6Layers :
       AccDirection(s, n) =>
         LET a == acc.layer[s]
             b == acc.layer[n]
             same == a.src = b.src /\ a.dst = b.dst
             rev == a.src = b.dst /\ a.dst = b.src
             d == acc'.res.dir
         IN /\ acc'.res.kind = "dir"
            /\ d \in {DIR_SAME, DIR_REV, DIR_UNKNOWN}
            /\ same => d = DIR_SAME
            /\ (rev /\ ~same) => d = DIR_REV
            /\ (~same /\ ~rev) => d = DIR_UNKNOWN]_vars

\* a pair that matches in both orders was classified, and so was a reversed pair
C21_Witness ==
  /\ acc.call.op = "_direction"
  /\ acc.call.self # acc.call.next
  /\ acc.layer["a"].src = acc.layer["b"].dst
  /\ acc.layer["a"].dst = acc.layer["b"].src
  /\ acc.layer["a"].src # acc.layer["a"].dst
  /\ acc.res.dir = DIR_REV


C29_FragmentBitFields ==
  [][LET w == frag.frag_off_resv_m
         w2 == frag'.frag_off_resv_m
     IN /\ \A v \in {0, 1} :
             FragSetMFlag(v) =>
               /\ get_m_flag(w2) = v
               /\ get_frag_off(w2) = get_frag_off(w)
               /\ ResvBits(w2) = ResvBits(w)
               /\ w2 \in 0..65535
        /\ \A v \in FragOffVals :
             FragSetFragOff(v) =>
               /\ get_frag_off(w2) = v
               /\ get_m_flag(w2) = get_m_flag(w)
               /\ w2 \in 0..65535]_vars


\* ------------------------------------------------------------ claims: layout
\* the fields of r, in order, whose current value is not None
PresentNow(r) == Filter(r.hdr_fields, [n \in Range(r.hdr_fields) |-> r.val[n] # NoneI])

\* C23: after any sequence of construction, field assignment and
\* _add_headerfield, a layer's present-field list is the ordered subsequence of
\* its fields whose value is not None, the layout string holds exactly those
\* fields' formats, and the header length is the size of that layout.
C23_PresentFieldInvariant ==
  \A l \in Layers :
    obj[l].alive =>
      /\ obj[l].fnn = PresentNow(obj[l])
      /\ obj[l].fmtstr = [i \in DOMAIN obj[l].fnn |-> FmtAt(obj[l], obj[l].fnn[i])]
      /\ obj[l].hdr_len = CalcSize(obj[l].fmtstr)


\* ------------------------------------------------------------ claims: schema isolation
\* what instance i reads as its field list, layout, header length and listeners
SchemaView(k, i) == [a \in SchemaAttrs |-> GetAttr(k, i, a)]

\* C26: an operation on one instance (field assignment, _add_headerfield,
\* add_change_listener) changes neither the class attributes nor what any other
\* instance reads, and an instance created afterwards reads the schema's field
\* list, layout, header length and an empty listener list.
C26_SchemaIsolation ==
  [][\A i \in Insts :
       /\ klass'.cls = ClassAttrs
       /\ (klass'.call.self = i /\ klass' # klass) =>
            \A j \in Insts \ {i} : SchemaView(klass', j) = SchemaView(klass, j)
       /\ KlassNew(i) => SchemaView(klass', i) = [a \in SchemaAttrs |-> ClassAttrs[a]]]_vars

\* an instance is created after another one got a field, a None value and a listener
C26_Witness ==
  /\ klass.call = [op |-> "new", self |-> "i2"]
  /\ klass.inst["i1"].alive
  /\ "c" \in Range(GetAttr(klass, "i1", "hdr_fields"))
  /\ klass.inst["i1"].val["a"] = NoneI
  /\ GetAttr(klass, "i1", "hdr_len") # ClassAttrs.hdr_len
  /\ Len(GetAttr(klass, "i1", "changelistener")) = 2


\* ------------------------------------------------------------ claims: add field
\* C25: _add_headerfield(name, format, value) appends name as the last field
\* (earlier fields keep their order and values), lets a non-None value
\* contribute its format at the end of the layout with the header length
\* following, and marks the layer dirty, so that a header cached before the
\* field was added is not reused.
C25_AddField ==
  [][\A v \in AddVals :
       AddHeaderFieldVal("p", v) =>
         LET r == obj["p"]
             r2 == obj'["p"]
         IN /\ r2.hdr_fields = Append(r.hdr_fields, "c")
            /\ \A n \in DOMAIN r.val : r2.val[n] = r.val[n]
            /\ r2.val["c"] = v
            /\ v # NoneI =>
                 /\ r2.fnn # <<>> /\ r2.fnn[Len(r2.fnn)] = "c"
                 /\ r2.fmtstr[Len(r2.fmtstr)] = "B"
                 /\ r2.hdr_len = CalcSize(r2.fmtstr)
            /\ v = NoneI => r2.fmtstr = r.fmtstr /\ r2.hdr_len = r.hdr_len
            /\ r2.header_cached # NoneB => r2.packet_changed = "true"]_vars


\* ------------------------------------------------------------ claims: TriggerList
Mutations == {"append", "iadd", "delitem", "setitem"}

\* C24: every mutating operation on an owned TriggerList (append, delete by
\* index, set by index, +=) drops the cached packed bytes and invokes the
\* owner's layout hook; pack_cb() returns pack() of the current elements, and
\* returns the cached value without calling pack() when one is cached.
C24_CacheFreshness ==
  [][/\ (trig'.call \in Mutations /\ trig' # trig /\ trig.packet # "None") =>
          /\ trig'.cached_result = NoCache
          /\ trig'.res.hook
     /\ TrigPackCb =>
          /\ trig'.res.bytes = pack(trig.items)
          /\ trig.cached_result # NoCache => ~trig'.res.packed]_vars

\* C27: a TriggerList holds only Packets or only tuples, never a mix and never
\* a value that is neither.
C27_Homogeneous ==
  \/ \A i \in DOMAIN trig.items : KindOf(trig.items[i]) = "packet"
  \/ \A i \in DOMAIN trig.items : KindOf(trig.items[i]) = "tuple"


\* ------------------------------------------------------------ claims: length
\* C28: for every layer, len(p) is the number of bytes p.bin() returns.
C28_LengthConsistency ==
  \A l \in Layers :
    obj[l].alive =>
      LET b == BinRec(obj, l)
          n == LenRec(obj, l)
      IN /\ b.kind = "ok"
         /\ n.kind = "ok"
         /\ n.n = Len(b.bytes)

====
